---- MODULE Spec2Model ----
(***************************************************************************)
(* The World Bank GDP-per-capita dashboard of src/app.py: normalization of *)
(* the JSON envelope (process_world_bank_data), the TTL-cached fetch       *)
(* (load_data) and the derived views computed by each script run           *)
(* (filtered_df, growth_df, df_map).                                       *)
(*                                                                         *)
(* JSON values are cells [k, s, n]: k is the kind ("missing": the key is   *)
(* absent from the record, "null", "str" with payload s, "num" with        *)
(* payload n, "obj": an object whose 'value' is the string s, "objnull":   *)
(* an object whose 'value' is null or absent).  A DataFrame is the         *)
(* sequence of its rows; each row keeps its index label idx.               *)
(***************************************************************************)
EXTENDS Integers, Sequences, FiniteSets

VARIABLES pc, now, cache, response, fetched, load_errors, page_errors, exc,
          data_df, selected_countries, start_year, map_year,
          filtered_df, growth_df, df_map, raw_data, result

vars == <<pc, now, cache, response, fetched, load_errors, page_errors, exc,
          data_df, selected_countries, start_year, map_year,
          filtered_df, growth_df, df_map, raw_data, result>>

(***************************************************************************)
(* Bounds of the model.                                                    *)
(***************************************************************************)
\* longest record list of an envelope handed to normalization alone
MaxRecords == 3
\* number of clock ticks the model lets pass
MaxTicks == 2

(***************************************************************************)
(* Program constants.                                                      *)
(***************************************************************************)
TTL == 3600
HTTP_OK == 200
DEFAULT_START_YEAR == 2005
default_countries == {"Brazil", "Chile", "United States", "Canada"}

\* one clock tick of the model: half a cache window
TickSeconds == TTL \div 2
MaxTime == MaxTicks * TickSeconds

(***************************************************************************)
(* JSON cells.                                                             *)
(***************************************************************************)
Missing == [k |-> "missing", s |-> "", n |-> 0]
Null == [k |-> "null", s |-> "", n |-> 0]
Str(t) == [k |-> "str", s |-> t, n |-> 0]
Num(v) == [k |-> "num", s |-> "", n |-> v]
Obj(t) == [k |-> "obj", s |-> t, n |-> 0]
ObjNull == [k |-> "objnull", s |-> "", n |-> 0]

RawRecord(c, code, d, v) == [country |-> c, countryiso3code |-> code, date |-> d, value |-> v]

\* Python's truth value of a cell (NaN, the value of a missing key, is truthy)
Truthy(x) ==
    CASE x.k = "null" -> FALSE
      [] x.k = "str" -> x.s # ""
      [] x.k = "num" -> x.n # 0
      [] OTHER -> TRUE

\* int(str): the decimal strings of the model; anything else raises ValueError
IntLiterals == [s \in {"2000", "2005", "0", "100", "150"} |->
                  CASE s = "2000" -> 2000 [] s = "2005" -> 2005
                    [] s = "0" -> 0 [] s = "100" -> 100 [] s = "150" -> 150]

IsIntLiteral(s) == s \in DOMAIN IntLiterals

\* Python's order of the country names of the model (code point order)
NameOrder == <<"", "Brazil", "Canada", "Chile", "United States">>

NameRank(s) == CHOOSE i \in 1..Len(NameOrder) : NameOrder[i] = s

(***************************************************************************)
(* process_world_bank_data                                                 *)
(***************************************************************************)
EmptyDF == <<>>

Returned(df) == [raised |-> FALSE, error |-> "", df |-> df]
Raised(e) == [raised |-> TRUE, error |-> e, df |-> EmptyDF]

\* df_raw has column key iff some record carries the key
HasColumn(rows, key) == \E i \in 1..Len(rows) : rows[i][key].k # "missing"

\* lambda x: x.get('value') if x else None  raises on a truthy non-dict
CountryRaises(x) == Truthy(x) /\ x.k \notin {"obj", "objnull"}

\* .astype(int) raises on anything that is not an integer or an integer literal
DateRaises(x) == ~(x.k = "num" \/ (x.k = "str" /\ IsIntLiteral(x.s)))

DateError(x) == IF x.k = "null" THEN "TypeError" ELSE "ValueError"

\* pd.to_numeric(errors='coerce'): numbers and numeric literals, NaN otherwise
ValueIsNumeric(x) == x.k = "num" \/ (x.k = "str" /\ IsIntLiteral(x.s))

\* one row of df_clean before dropna
CleanRow(rows, i) ==
    LET r == rows[i] IN
    [idx |-> i - 1,
     name_null |-> ~(r.country.k = "obj"),
     CountryName |-> IF r.country.k = "obj" THEN r.country.s ELSE "",
     CountryCode |-> IF r.countryiso3code.k = "str" THEN r.countryiso3code.s ELSE "NaN",
     Year |-> IF r.date.k = "num" THEN r.date.n ELSE IntLiterals[r.date.s],
     value_nan |-> ~ValueIsNumeric(r.value),
     Value |-> IF r.value.k = "num" THEN r.value.n
               ELSE IF ValueIsNumeric(r.value) THEN IntLiterals[r.value.s] ELSE 0]

\* dropna over the Value column alone
DropNaValueOnly(row) == ~row.value_nan

\* .dropna(subset=['Value', 'CountryName'])
DropNaKeeps(row) == ~row.value_nan /\ ~row.name_null

\* the sort keys swapped: by=['Year', 'CountryName']
RowLessYearFirst(a, b) ==
    \/ a.Year < b.Year
    \/ a.Year = b.Year /\ NameRank(a.CountryName) < NameRank(b.CountryName)

\* the order of sort_values(by=['CountryName', 'Year'])
RowLess(a, b) ==
    \/ NameRank(a.CountryName) < NameRank(b.CountryName)
    \/ a.CountryName = b.CountryName /\ a.Year < b.Year

InsertRow(s, r) ==
    LET k == Cardinality({i \in 1..Len(s) : ~RowLess(r, s[i])})
    IN SubSeq(s, 1, k) \o <<r>> \o SubSeq(s, k + 1, Len(s))

RECURSIVE StableSort(_)
StableSort(df) ==
    IF df = <<>> THEN <<>>
    ELSE InsertRow(StableSort(SubSeq(df, 1, Len(df) - 1)), df[Len(df)])

\* the frame returned as dropna left it
unsorted(df) == df

sort_values(df) == StableSort(df)

\* the first exception lines 34-37 raise, in evaluation order, or "" for none
CleanError(rows) ==
    LET I == 1..Len(rows) IN
    IF ~HasColumn(rows, "country") THEN "KeyError"
    ELSE IF \E i \in I : CountryRaises(rows[i].country) THEN "AttributeError"
    ELSE IF ~HasColumn(rows, "countryiso3code") THEN "KeyError"
    ELSE IF ~HasColumn(rows, "date") THEN "KeyError"
    ELSE IF \E i \in I : DateRaises(rows[i].date)
         THEN DateError(rows[CHOOSE i \in I : DateRaises(rows[i].date)
                                 /\ \A j \in 1..(i - 1) : ~DateRaises(rows[j].date)].date)
    ELSE IF ~HasColumn(rows, "value") THEN "KeyError"
    ELSE ""

\* Envelopes: [islist, len, second]; second is the element raw_data[1]:
\* [k |-> "null" | "str" | "records", rows |-> the record list]
process_world_bank_data(raw) ==
    IF ~raw.islist \/ raw.len < 2 THEN Returned(EmptyDF)
    ELSE IF raw.second.k = "str" THEN Raised("ValueError")
    ELSE LET rows == raw.second.rows
             err == CleanError(rows)
         IN IF err # "" THEN Raised(err)
            ELSE LET all == [i \in 1..Len(rows) |-> CleanRow(rows, i)]
                 IN Returned(sort_values(SelectSeq(all, DropNaKeeps)))

(***************************************************************************)
(* Inputs of the normalization taken alone: envelopes of every shape the   *)
(* JSON decoder can hand over.  A record is well formed or carries one     *)
(* defect in one field.                                                    *)
(***************************************************************************)
WellFormedRecords ==
    {RawRecord(Obj(c[1]), Str(c[2]), Str(d), Num(100)) :
        c \in {<<"Brazil", "BRA">>, <<"Chile", "CHL">>}, d \in {"2000", "2005"}}

DefectiveRecords ==
    {RawRecord(c, Str("BRA"), Str("2005"), Num(100)) : c \in {Missing, Null, ObjNull, Obj("")}}
    \cup {RawRecord(Obj("Brazil"), Missing, Str("2005"), Num(100))}
    \cup {RawRecord(Obj("Brazil"), Str("BRA"), d, Num(100)) : d \in {Missing, Null, Str("abc")}}
    \cup {RawRecord(Obj("Brazil"), Str("BRA"), Str("2005"), v) : v \in {Missing, Null, Str("n/a")}}

RawRecords == WellFormedRecords \cup DefectiveRecords

SeqsUpTo(S, n) == UNION {[1..m -> S] : m \in 0..n}

NotAList == [islist |-> FALSE, len |-> 0, second |-> [k |-> "null", rows |-> <<>>]]

\* a list of len elements whose element [1], when there is one, is second
ListEnvelope(len, second) == [islist |-> TRUE, len |-> len, second |-> second]

NullSecond == [k |-> "null", rows |-> <<>>]
StrSecond == [k |-> "str", rows |-> <<>>]
Records(rows) == [k |-> "records", rows |-> rows]

\* the error envelope of the API: [{"message": [...]}]
MessageEnvelope == ListEnvelope(1, NullSecond)

NormEnvelopes ==
    {NotAList, MessageEnvelope}
    \cup {ListEnvelope(n, s) : n \in {2, 3}, s \in {NullSecond, StrSecond}}
    \cup {ListEnvelope(n, Records(rows)) : n \in {2, 3}, rows \in SeqsUpTo(RawRecords, MaxRecords)}

(***************************************************************************)
(* Responses of the API to the one URL the program requests: a record per  *)
(* (country, year) of the request, in request order with the years         *)
(* descending, its value null where the indicator is not reported.         *)
(***************************************************************************)
PanelCountries == <<<<"Brazil", "BRA">>, <<"Chile", "CHL">>,
                    <<"United States", "USA">>, <<"Canada", "CAN">>>>
PanelYears == <<"2005", "2000">>

PanelCells == {<<c, y>> : c \in 1..Len(PanelCountries), y \in 1..Len(PanelYears)}

PanelValue(c, y) ==
    CASE c = 1 -> IF y = 2 THEN 100 ELSE 150
      [] c = 2 -> IF y = 2 THEN 0 ELSE 100
      [] c = 3 -> 150
      [] OTHER -> IF y = 2 THEN 150 ELSE 100

PanelRows(reported) ==
    [i \in 1..(Len(PanelCountries) * Len(PanelYears)) |->
        LET c == ((i - 1) \div Len(PanelYears)) + 1
            y == ((i - 1) % Len(PanelYears)) + 1
        IN RawRecord(Obj(PanelCountries[c][1]), Str(PanelCountries[c][2]), Str(PanelYears[y]),
                     IF <<c, y>> \in reported THEN Num(PanelValue(c, y)) ELSE Null)]

PanelEnvelopes == {ListEnvelope(2, Records(PanelRows(rep))) : rep \in SUBSET PanelCells}

HttpResponse(status, body) == [kind |-> "http", status |-> status, body |-> body]
ConnectionFailure == [kind |-> "conn", status |-> 0, body |-> NotAList]
NoResponse == [kind |-> "none", status |-> 0, body |-> NotAList]

Responses ==
    {HttpResponse(HTTP_OK, b) : b \in PanelEnvelopes \cup {MessageEnvelope, ListEnvelope(2, NullSecond)}}
    \cup {HttpResponse(s, MessageEnvelope) : s \in {404, 500}}
    \cup {ConnectionFailure}

(***************************************************************************)
(* load_data under @st.cache_data(ttl=3600)                                *)
(***************************************************************************)
NoEntry == [has |-> FALSE, df |-> EmptyDF, errors |-> 0, stored_at |-> 0, expires |-> 0]

\* an entry put at time t lives ttl seconds
NewEntry(df, errors, t) ==
    [has |-> TRUE, df |-> df, errors |-> errors, stored_at |-> t, expires |-> t + TTL]

\* an entry still served at the instant it expires
CacheFreshAtExpiry(entry, t) == entry.has /\ t <= entry.expires

\* the entry is served while the clock is before its expiry
CacheFresh(entry, t) == entry.has /\ t < entry.expires

\* only server errors taken as failures
StatusBelow500(status) == status < 500

\* response.status_code == 200
StatusOk(status) == status = HTTP_OK

\* the body of load_data: what it returns or raises, and the st.error calls it makes
load_data_body(resp) ==
    IF resp.kind = "conn" THEN [res |-> Returned(EmptyDF), errors |-> 1]
    ELSE IF StatusOk(resp.status) THEN [res |-> process_world_bank_data(resp.body), errors |-> 0]
    ELSE [res |-> Returned(EmptyDF), errors |-> 1]

(***************************************************************************)
(* The derived views of one script run                                     *)
(***************************************************************************)
Rows(df) == {df[i] : i \in 1..Len(df)}
CountryNames(df) == {r.CountryName : r \in Rows(df)}
YearsOf(df) == {r.Year : r \in Rows(df)}
MinOf(S) == CHOOSE x \in S : \A y \in S : x <= y
MaxOf(S) == CHOOSE x \in S : \A y \in S : x >= y

\* df[mask]: the rows whose mask entry is true, in the order of df
BoolIndex(df, mask) ==
    LET at == SelectSeq([i \in 1..Len(df) |-> i], LAMBDA i : mask[i])
    IN [j \in 1..Len(at) |-> df[at[j]]]

\* a strict comparison with the start year
gt_mask(df, year) == [i \in 1..Len(df) |-> df[i].Year > year]
\* every year up to the map year
le_mask(df, year) == [i \in 1..Len(df) |-> df[i].Year <= year]

isin_mask(df, names) == [i \in 1..Len(df) |-> df[i].CountryName \in names]
ge_mask(df, year) == [i \in 1..Len(df) |-> df[i].Year >= year]
eq_mask(df, year) == [i \in 1..Len(df) |-> df[i].Year = year]
and_mask(a, b) == [i \in DOMAIN a |-> a[i] /\ b[i]]

FilteredView(df, names, year) == BoolIndex(df, and_mask(isin_mask(df, names), ge_mask(df, year)))

MapSnapshot(df, year) == BoolIndex(df, eq_mask(df, year))

RECURSIVE GCD(_, _)
GCD(a, b) == IF b = 0 THEN a ELSE GCD(b, a % b)

Abs(x) == IF x < 0 THEN -x ELSE x
Sign(x) == IF x < 0 THEN -1 ELSE IF x > 0 THEN 1 ELSE 0

\* (final / initial - 1) * 100 as the fraction num/den in lowest terms;
\* float division by zero gives an infinity (num = +-1, den = 0) or NaN (0/0)
TotalGrowth(final, initial) ==
    IF initial = 0 THEN [num |-> Sign(final), den |-> 0]
    ELSE LET n == (final - initial) * 100 * Sign(initial)
             d == Abs(initial)
             g == GCD(Abs(n), d)
         IN [num |-> n \div g, den |-> d \div g]

\* groupby('CountryName').agg(last, first): the group keys sorted, one row each
GrowthSummary(df) ==
    LET keys == SelectSeq(NameOrder, LAMBDA c : c \in CountryNames(df))
    IN [j \in 1..Len(keys) |->
          LET group == BoolIndex(df, isin_mask(df, {keys[j]}))
              final == group[Len(group)].Value
              initial == group[1].Value
          IN [CountryName |-> keys[j], Final_Value |-> final, Initial_Value |-> initial,
              Total_Growth |-> TotalGrowth(final, initial)]]

\* the stops of the start-year slider the model tries
SliderStops == {2000, DEFAULT_START_YEAR}

\* st.multiselect and st.slider raise when a default is outside the options / the range
DefaultsValid(df) ==
    /\ default_countries \subseteq CountryNames(df)
    /\ MinOf(YearsOf(df)) <= DEFAULT_START_YEAR
    /\ DEFAULT_START_YEAR <= MaxOf(YearsOf(df))

(***************************************************************************)
(* The script: every interaction runs it from the top                      *)
(***************************************************************************)
RunLocals == <<response, fetched, load_errors, page_errors, exc, data_df,
               selected_countries, start_year, map_year, filtered_df, growth_df, df_map>>
Views == <<selected_countries, start_year, map_year, filtered_df, growth_df, df_map>>
NormVars == <<raw_data, result>>

FreshRun ==
    /\ response = NoResponse
    /\ fetched = FALSE
    /\ load_errors = 0
    /\ page_errors = 0
    /\ exc = ""
    /\ data_df = EmptyDF
    /\ selected_countries = {}
    /\ start_year = 0
    /\ map_year = 0
    /\ filtered_df = EmptyDF
    /\ growth_df = <<>>
    /\ df_map = EmptyDF

Init ==
    /\ pc = "start"
    /\ now = 0
    /\ cache = NoEntry
    /\ FreshRun
    /\ raw_data = NotAList
    /\ result = Returned(EmptyDF)

\* time passes between two runs
Tick ==
    /\ pc = "start"
    /\ now + TickSeconds <= MaxTime
    /\ now' = now + TickSeconds
    /\ UNCHANGED <<pc, cache, RunLocals, NormVars>>

\* line 63 on a cache hit: the stored value and the stored st.error are replayed
load_data_cached ==
    /\ pc = "start"
    /\ CacheFresh(cache, now)
    /\ data_df' = cache.df
    /\ load_errors' = cache.errors
    /\ pc' = "loaded"
    /\ UNCHANGED <<now, cache, response, fetched, page_errors, exc, Views, NormVars>>

\* line 63 on a cache miss: the request is issued and the function body runs
load_data ==
    /\ pc = "start"
    /\ ~CacheFresh(cache, now)
    /\ \E resp \in Responses :
         LET out == load_data_body(resp) IN
         /\ response' = resp
         /\ fetched' = TRUE
         /\ load_errors' = out.errors
         /\ IF out.res.raised
            THEN /\ exc' = out.res.error
                 /\ pc' = "crashed"
                 /\ UNCHANGED <<cache, data_df>>
            ELSE /\ cache' = NewEntry(out.res.df, out.errors, now)
                 /\ data_df' = out.res.df
                 /\ pc' = "loaded"
                 /\ UNCHANGED exc
    /\ UNCHANGED <<now, page_errors, Views, NormVars>>

\* lines 282-283: data_df.empty
ElseBranch ==
    /\ pc = "loaded"
    /\ data_df = EmptyDF
    /\ page_errors' = page_errors + 1
    /\ pc' = "done"
    /\ UNCHANGED <<now, cache, response, fetched, load_errors, exc, data_df, Views, NormVars>>

\* lines 84-100: a default outside the options or the range raises
WidgetError ==
    /\ pc = "loaded"
    /\ data_df # EmptyDF
    /\ ~DefaultsValid(data_df)
    /\ exc' = "StreamlitAPIException"
    /\ pc' = "crashed"
    /\ UNCHANGED <<now, cache, response, fetched, load_errors, page_errors, data_df, Views, NormVars>>

\* lines 75-280: the widgets return the user's choices and the views are computed
RenderTabs ==
    /\ pc = "loaded"
    /\ data_df # EmptyDF
    /\ DefaultsValid(data_df)
    /\ \E sel \in SUBSET CountryNames(data_df),
          sy \in {y \in SliderStops : MinOf(YearsOf(data_df)) <= y /\ y <= MaxOf(YearsOf(data_df))},
          my \in YearsOf(data_df) :
         /\ selected_countries' = sel
         /\ start_year' = sy
         /\ map_year' = my
         /\ filtered_df' = FilteredView(data_df, sel, sy)
         /\ growth_df' = GrowthSummary(FilteredView(data_df, sel, sy))
         /\ df_map' = MapSnapshot(data_df, my)
    /\ pc' = "done"
    /\ UNCHANGED <<now, cache, response, fetched, load_errors, page_errors, exc, data_df, NormVars>>

\* the next interaction: the script starts over, only the cache survives
Rerun ==
    /\ pc \in {"done", "crashed"}
    /\ pc' = "start"
    /\ response' = NoResponse
    /\ fetched' = FALSE
    /\ load_errors' = 0
    /\ page_errors' = 0
    /\ exc' = ""
    /\ data_df' = EmptyDF
    /\ selected_countries' = {}
    /\ start_year' = 0
    /\ map_year' = 0
    /\ filtered_df' = EmptyDF
    /\ growth_df' = <<>>
    /\ df_map' = EmptyDF
    /\ UNCHANGED <<now, cache, NormVars>>

Next ==
    \/ Tick
    \/ load_data_cached
    \/ load_data
    \/ ElseBranch
    \/ WidgetError
    \/ RenderTabs
    \/ Rerun

Spec == Init /\ [][Next]_vars

(***************************************************************************)
(* Normalization taken alone: any envelope in, one call                    *)
(***************************************************************************)
NormInit ==
    /\ pc = "norm"
    /\ now = 0
    /\ cache = NoEntry
    /\ FreshRun
    /\ raw_data \in NormEnvelopes
    /\ result = Returned(EmptyDF)

Normalize ==
    /\ pc = "norm"
    /\ result' = process_world_bank_data(raw_data)
    /\ pc' = "normalized"
    /\ UNCHANGED <<now, cache, RunLocals, raw_data>>

NormNext == Normalize

NormSpec == NormInit /\ [][NormNext]_vars

(***************************************************************************)
(* Claims about process_world_bank_data (checked under NormSpec)           *)
(***************************************************************************)
RawRows == raw_data.second.rows
Normalized == pc = "normalized"

\* the envelope is not a two-element sequence holding a record list
StructuralMismatch(raw) == ~raw.islist \/ raw.len # 2 \/ raw.second.k # "records"

\* C1: normalization is total: whatever the envelope, process_world_bank_data
\* returns a record set, empty on a structural mismatch of the envelope, and
\* never raises.
C1_NormalizationTotal ==
    Normalized =>
        /\ ~result.raised
        /\ StructuralMismatch(raw_data) => result.df = EmptyDF

WellFormedRow(r) ==
    /\ r.country.k = "obj" /\ r.country.s # ""
    /\ r.countryiso3code.k = "str"
    /\ r.date.k = "str" /\ IsIntLiteral(r.date.s)
    /\ r.value.k = "num"

\* a record with one row-level parse failure: a year that is no integer, a
\* non-numeric value, or no nested country object
RowFailure(r) ==
    /\ r.countryiso3code.k = "str"
    /\ \/ /\ r.date.k = "str" /\ ~IsIntLiteral(r.date.s)
          /\ r.country.k = "obj" /\ r.value.k = "num"
       \/ /\ r.value.k = "str" /\ ~IsIntLiteral(r.value.s)
          /\ r.country.k = "obj" /\ r.date.k = "str" /\ IsIntLiteral(r.date.s)
       \/ /\ r.country.k = "null"
          /\ r.value.k = "num" /\ r.date.k = "str" /\ IsIntLiteral(r.date.s)

ExpectedRow(r, i) ==
    [idx |-> i - 1, name_null |-> FALSE, CountryName |-> r.country.s,
     CountryCode |-> r.countryiso3code.s, Year |-> IntLiterals[r.date.s],
     value_nan |-> FALSE, Value |-> r.value.n]

\* C2: a row-level parse failure removes only that row: when the record list
\* holds well-formed records plus one record with a row-level failure, the
\* output is exactly the normalized forms of the well-formed records and no
\* exception is raised.
C2_RowFailureRemovesOnlyThatRow ==
    LET I == 1..Len(RawRows)
        good == {i \in I : WellFormedRow(RawRows[i])}
        bad == {i \in I : RowFailure(RawRows[i])}
    IN (/\ Normalized
        /\ raw_data.islist /\ raw_data.len = 2 /\ raw_data.second.k = "records"
        /\ good \cup bad = I /\ Cardinality(bad) = 1 /\ good # {})
       => /\ ~result.raised
          /\ Rows(result.df) = {ExpectedRow(RawRows[i], i) : i \in good}
          /\ Len(result.df) = Cardinality(good)

\* the raw record has a null or non-numeric value, no country object, or a
\* null country name
RawNullRow(r) ==
    \/ ~ValueIsNumeric(r.value)
    \/ r.country.k \in {"null", "missing", "objnull"}

\* C3 (as amended): every output record has a non-null Value and a non-null
\* CountryName, and every raw record with a null or non-numeric value, an
\* absent country object or a null country name is absent from the output.
C3_OutputNonNull ==
    (Normalized /\ ~result.raised) =>
        /\ \A r \in Rows(result.df) : ~r.value_nan /\ ~r.name_null
        /\ \A i \in 1..Len(RawRows) :
              RawNullRow(RawRows[i]) => \A r \in Rows(result.df) : r.idx # i - 1

\* C3 (as claimed): as above, and the CountryName of every output record is
\* non-empty.
C3_OutputNonNullNonEmpty ==
    (Normalized /\ ~result.raised) =>
        /\ \A r \in Rows(result.df) : ~r.value_nan /\ ~r.name_null /\ r.CountryName # ""
        /\ \A i \in 1..Len(RawRows) :
              RawNullRow(RawRows[i]) => \A r \in Rows(result.df) : r.idx # i - 1

\* a call that kept one record and dropped one for its value, one for its country
C3_Witness ==
    /\ Normalized /\ ~result.raised
    /\ Len(result.df) = 1
    /\ \E i, j \in 1..Len(RawRows) :
          /\ RawRows[i].value.k = "null" /\ RawRows[i].country.k = "obj"
          /\ RawRows[j].country.k = "null" /\ RawRows[j].value.k = "num"

(***************************************************************************)
(* Claims about the script (checked under Spec)                            *)
(***************************************************************************)
\* non-decreasing by (CountryName, Year)
IsSorted(df) ==
    \A i \in 1..(Len(df) - 1) :
        \/ NameRank(df[i].CountryName) < NameRank(df[i + 1].CountryName)
        \/ df[i].CountryName = df[i + 1].CountryName /\ df[i].Year <= df[i + 1].Year

\* the run reached the end of the tabs with data
Rendered == pc = "done" /\ data_df # EmptyDF

\* sub is df with some rows left out: no row twice, the order of df kept
IsSubFrame(sub, df) ==
    /\ Rows(sub) \subseteq Rows(df)
    /\ \A i, j \in 1..Len(sub) :
          i < j => \E k, l \in 1..Len(df) : k < l /\ df[k] = sub[i] /\ df[l] = sub[j]

\* C4: the normalized record set is non-decreasing by (CountryName, Year),
\* and the data the derived views read (data_df, as returned or as served
\* from the cache) keeps that order.
C4_SortedByNameYear ==
    /\ IsSorted(data_df)
    /\ IsSorted(cache.df)
    /\ IsSorted(filtered_df)

\* the views were computed from data whose rows the sort had to reorder
C4_Witness ==
    /\ Rendered
    /\ Len(filtered_df) >= 2
    /\ \E i \in 1..(Len(data_df) - 1) : data_df[i].idx > data_df[i + 1].idx

\* a non-success status or a transport-level failure
FailedFetch(resp) ==
    \/ resp.kind = "conn"
    \/ resp.kind = "http" /\ resp.status \notin 200..299

C6_CachedForTTL ==
    [][(pc = "start" /\ pc' # "start") =>
          /\ IF cache.has /\ now < cache.stored_at + TTL
             THEN ~fetched' /\ data_df' = cache.df /\ cache' = cache
             ELSE fetched'
          /\ (fetched' /\ pc' = "loaded") =>
                cache'.has /\ cache'.stored_at = now /\ cache'.df = data_df']_vars

\* the empty set of a failed fetch served from the cache later in its window
C6_Witness ==
    /\ pc = "loaded" /\ ~fetched
    /\ cache.has /\ cache.errors = 1 /\ data_df = EmptyDF
    /\ now = cache.stored_at + TickSeconds

\* C7: the filtered view is exactly the records of data_df whose CountryName
\* is selected and whose Year >= start_year, in their original order; an
\* empty selection gives 0 rows; filtering the view again gives the view.
C7_FilteredViewExact ==
    Rendered =>
        /\ \A r \in Rows(data_df) :
              r \in Rows(filtered_df)
                  <=> (r.CountryName \in selected_countries /\ r.Year >= start_year)
        /\ IsSubFrame(filtered_df, data_df)
        /\ selected_countries = {} => Len(filtered_df) = 0
        /\ FilteredView(filtered_df, selected_countries, start_year) = filtered_df

\* a view that lost rows to the country filter and rows to the year filter
C7_Witness ==
    /\ Rendered
    /\ filtered_df # EmptyDF
    /\ \E r \in Rows(data_df) : r.CountryName \notin selected_countries /\ r.Year >= start_year
    /\ \E r \in Rows(data_df) : r.CountryName \in selected_countries /\ r.Year < start_year
    /\ \E r \in Rows(filtered_df) : r.Year = start_year

GroupOf(df, c) == {r \in Rows(df) : r.CountryName = c}

\* C8: the growth summary has one row per country of the filtered view, with
\* Initial_Value the Value at the country's minimum Year, Final_Value the
\* Value at its maximum Year, and Total_Growth = (Final/Initial - 1) * 100
\* (an infinity or NaN when Initial_Value is 0); (2000, 100), (2005, 150)
\* gives 50.
C8_GrowthByMinMaxYear ==
    Rendered =>
        /\ {g.CountryName : g \in Rows(growth_df)} = CountryNames(filtered_df)
        /\ Len(growth_df) = Cardinality(CountryNames(filtered_df))
        /\ \A g \in Rows(growth_df) :
              LET grp == GroupOf(filtered_df, g.CountryName)
                  years == {r.Year : r \in grp}
              IN /\ \E r \in grp : r.Year = MinOf(years) /\ r.Value = g.Initial_Value
                 /\ \E r \in grp : r.Year = MaxOf(years) /\ r.Value = g.Final_Value
                 /\ IF g.Initial_Value = 0
                    THEN g.Total_Growth.den = 0
                    ELSE /\ g.Total_Growth.den > 0
                         /\ g.Total_Growth.num * g.Initial_Value
                               = (g.Final_Value - g.Initial_Value) * 100 * g.Total_Growth.den
                 /\ (g.Initial_Value = 100 /\ g.Final_Value = 150)
                       => g.Total_Growth = [num |-> 50, den |-> 1]

\* Brazil with the records (2000, 100) and (2005, 150) in the view
C8_Witness ==
    /\ Rendered
    /\ {<<r.Year, r.Value>> : r \in GroupOf(filtered_df, "Brazil")} = {<<2000, 100>>, <<2005, 150>>}
    /\ \E g \in Rows(growth_df) :
          /\ g.CountryName = "Brazil"
          /\ g.Initial_Value = 100 /\ g.Final_Value = 150
          /\ g.Total_Growth = [num |-> 50, den |-> 1]

\* C9: the map snapshot is exactly the records of the unfiltered data_df
\* whose Year is the map year, whatever the country selection and the start
\* year are.
C9_MapSnapshotUnfiltered ==
    Rendered =>
        /\ \A r \in Rows(data_df) : r \in Rows(df_map) <=> r.Year = map_year
        /\ IsSubFrame(df_map, data_df)

\* a snapshot holding rows that both filters of the sidebar reject
C9_Witness ==
    /\ Rendered
    /\ selected_countries = {} /\ filtered_df = EmptyDF
    /\ map_year < start_year
    /\ df_map # EmptyDF

\* C10: whenever the normalized record set is non-empty, the widget defaults
\* are valid for it: the four default countries are among its country
\* names, and min Year <= 2005 <= max Year.
C10_DefaultsValidForData ==
    data_df # EmptyDF =>
        /\ \A c \in default_countries : \E r \in Rows(data_df) : r.CountryName = c
        /\ \E r \in Rows(data_df) : r.Year <= DEFAULT_START_YEAR
        /\ \E r \in Rows(data_df) : r.Year >= DEFAULT_START_YEAR

====
